---- MODULE Spec2Model ----
(***************************************************************************)
(* Model of the terminal browser of src/src/brn_tui/main.rs: BrnTui::init  *)
(* (terminal session lifecycle), BrnTui::run_app (render/event loop) and   *)
(* the handlers of the down, up and open keys.                             *)
(*                                                                         *)
(* pc is the position of the single thread inside init/run_app.  Every     *)
(* call on the terminal may fail; the code unwraps each of them, so a      *)
(* failure is a panic that leaves init at once.  steps is the log of the   *)
(* calls made since the last event was read (since startup before the      *)
(* first one): what a mock terminal and mock collaborators would record.   *)
(***************************************************************************)
EXTENDS Integers, Sequences, FiniteSets, TLC

\* ---------------------------------------------------------------- bounds

\* Longest note list the store hands to TuiData::default().
MaxLen == 2

\* Note names, storage identifiers, note texts and failure descriptions.
Labels == {"alpha", "beta"}
Ids == {"n1", "n2"}
Texts == {"one", "two"}
ReadErrors == {"not found"}
EditorErrors == {"exit code 1"}

\* Option::None of a label and of an identifier; the empty String.
None == "<none>"
NoId == "<no id>"
Empty == ""

\* The cursor of an empty list (no index is selected).
NoCursor == 0 - 1

\* What event::read() can return: the seven mapped keys, two keys the
\* mapping ignores, an event that is no key, and a failed read.
QuitKeys == {"q"}
DownKeys == {"j", "Down"}
UpKeys == {"k", "Up"}
OpenKeys == {"l", "Enter"}
OtherEvents == {"Q", "J", "Resize", "ReadErr"}
Events == QuitKeys \cup DownKeys \cup UpKeys \cup OpenKeys \cup OtherEvents

\* Result<String, String> of the content read, as a record.
Ok(text) == [ok |-> TRUE, val |-> text]
Err(description) == [ok |-> FALSE, val |-> description]
ReadResults == {Ok(t) : t \in Texts} \cup {Err(e) : e \in ReadErrors}

\* Bounded sequences of labels.
SeqsUpTo(S, n) == UNION {[1..k -> S] : k \in 0..n}

VARIABLES
    pc,                    \* position inside init / run_app
    raw_mode,              \* the terminal is in raw input mode
    alternate_screen,      \* the alternate screen is entered
    mouse_capture,         \* mouse capture is enabled
    cursor_shown,          \* the terminal cursor is visible
    items,                 \* tui_data.note_list: the labels
    cursor,                \* tui_data.note_list: the selected index (0-based)
    note_content_preview,  \* tui_data.note_content_preview
    message,               \* tui_data.message
    index,                 \* the note index: label -> identifier or NoId
    content,               \* the note store: identifier -> Result of a read
    steps                  \* calls made since the last event read

vars == <<pc, raw_mode, alternate_screen, mouse_capture, cursor_shown, items,
          cursor, note_content_preview, message, index, content, steps>>

terminal == <<raw_mode, alternate_screen, mouse_capture, cursor_shown>>
tui_data == <<items, cursor, note_content_preview, message>>
store == <<index, content>>

\* One entry of the log: the call, its argument and its result.
Step(op, arg, res) == [op |-> op, arg |-> arg, res |-> res]
Done(op) == Step(op, Empty, "ok")
Failed(op) == Step(op, Empty, "err")

\* ------------------------------------------------------ the note list

\* StatefulList::selected_item(): the label at the cursor, None if empty.
selected_item(list, c) ==
    IF Len(list) = 0 \/ c = NoCursor THEN None ELSE list[c + 1]

\* StatefulList::next(): one forward with wraparound, no-op if empty.
next(list, c) ==
    IF Len(list) = 0 THEN c
    ELSE IF c = Len(list) - 1 THEN 0 ELSE c + 1

\* StatefulList::previous(): one back with wraparound, no-op if empty.
previous(list, c) ==
    IF Len(list) = 0 THEN c
    ELSE IF c = 0 THEN Len(list) - 1 ELSE c - 1

\* ---------------------------------------------------- the collaborators

\* Database::get_note_id_where(NoteProperty::NoteName, name).
get_note_id_where(name) == index[name]

\* Notes::get_content_of_note(&note_id, settings).
get_content_of_note(note_id) == content[note_id]

\* Notes::open(&note_id, settings, false): what it can return.
OpenResults == {"ok"} \cup EditorErrors

\* The store after the editor ran on note_id: untouched, or with a new text.
StoresAfterOpen(note_id) ==
    {content} \cup {[content EXCEPT ![note_id] = Ok(t)] : t \in Texts}

\* ------------------------------------------------------ preview refresh

\* A preview refresh that clears the preview when the read fails.
show_note_content_preview_clearing(c) ==
    LET name == selected_item(items, c)
        note_id == get_note_id_where(name)
        read == get_content_of_note(note_id)
        same == [preview |-> note_content_preview, message |-> message]
    IN  IF name = None THEN same @@ [log |-> <<>>]
        ELSE IF note_id = NoId
             THEN same @@ [log |-> <<Step("lookup", name, NoId)>>]
        ELSE [preview |-> IF read.ok THEN read.val ELSE Empty,
              message |-> IF read.ok THEN message ELSE read.val,
              log |-> <<Step("lookup", name, note_id),
                        Step("read_content", note_id,
                             IF read.ok THEN "ok" ELSE read.val)>>]

\* A preview refresh that reports "nothing selected" on the status line.
show_note_content_preview_reporting(c) ==
    LET name == selected_item(items, c)
        note_id == get_note_id_where(name)
        read == get_content_of_note(note_id)
        same == [preview |-> note_content_preview, message |-> message]
    IN  IF name = None
        THEN [preview |-> note_content_preview, message |-> "not found",
              log |-> <<>>]
        ELSE IF note_id = NoId
             THEN same @@ [log |-> <<Step("lookup", name, NoId)>>]
        ELSE [preview |-> IF read.ok THEN read.val ELSE note_content_preview,
              message |-> IF read.ok THEN message ELSE read.val,
              log |-> <<Step("lookup", name, note_id),
                        Step("read_content", note_id,
                             IF read.ok THEN "ok" ELSE read.val)>>]


\* A preview refresh whose Err arm writes the old message to the preview
\* before it stores the description.
show_note_content_preview_swapping(c) ==
    LET name == selected_item(items, c)
        note_id == get_note_id_where(name)
        read == get_content_of_note(note_id)
        same == [preview |-> note_content_preview, message |-> message]
    IN  IF name = None THEN same @@ [log |-> <<>>]
        ELSE IF note_id = NoId
             THEN same @@ [log |-> <<Step("lookup", name, NoId)>>]
        ELSE [preview |-> IF read.ok THEN read.val ELSE message,
              message |-> IF read.ok THEN message ELSE read.val,
              log |-> <<Step("lookup", name, note_id),
                        Step("read_content", note_id,
                             IF read.ok THEN "ok" ELSE read.val)>>]


\* A preview refresh that blanks the preview on a lookup miss.
show_note_content_preview_blanking(c) ==
    LET name == selected_item(items, c)
        note_id == get_note_id_where(name)
        read == get_content_of_note(note_id)
        same == [preview |-> note_content_preview, message |-> message]
    IN  IF name = None THEN same @@ [log |-> <<>>]
        ELSE IF note_id = NoId
             THEN [preview |-> Empty, message |-> message,
                   log |-> <<Step("lookup", name, NoId)>>]
        ELSE [preview |-> IF read.ok THEN read.val ELSE note_content_preview,
              message |-> IF read.ok THEN message ELSE read.val,
              log |-> <<Step("lookup", name, note_id),
                        Step("read_content", note_id,
                             IF read.ok THEN "ok" ELSE read.val)>>]

\* A preview refresh that resets the status line when the read succeeds.
show_note_content_preview_resetting(c) ==
    LET name == selected_item(items, c)
        note_id == get_note_id_where(name)
        read == get_content_of_note(note_id)
        same == [preview |-> note_content_preview, message |-> message]
    IN  IF name = None THEN same @@ [log |-> <<>>]
        ELSE IF note_id = NoId
             THEN same @@ [log |-> <<Step("lookup", name, NoId)>>]
        ELSE [preview |-> IF read.ok THEN read.val ELSE note_content_preview,
              message |-> IF read.ok THEN Empty ELSE read.val,
              log |-> <<Step("lookup", name, note_id),
                        Step("read_content", note_id,
                             IF read.ok THEN "ok" ELSE read.val)>>]

\* BrnTui::show_note_content_preview with the cursor at c: the preview and
\* the message it leaves, and the collaborator calls it makes.
show_note_content_preview(c) ==
    LET name == selected_item(items, c)
        note_id == get_note_id_where(name)
        read == get_content_of_note(note_id)
        same == [preview |-> note_content_preview, message |-> message]
    IN  IF name = None THEN same @@ [log |-> <<>>]
        ELSE IF note_id = NoId
             THEN same @@ [log |-> <<Step("lookup", name, NoId)>>]
        ELSE [preview |-> IF read.ok THEN read.val ELSE note_content_preview,
              message |-> IF read.ok THEN message ELSE read.val,
              log |-> <<Step("lookup", name, note_id),
                        Step("read_content", note_id,
                             IF read.ok THEN "ok" ELSE read.val)>>]

\* ------------------------------------------------------------ the panic

\* .unwrap() on an Err: init is left at once.  Unwinding drops the Terminal,
\* which may or may not show the cursor again (it depends on the build's
\* panic strategy), so both outcomes are possible.
Panic ==
    /\ pc' = "panicked"
    /\ cursor_shown' \in {cursor_shown, TRUE}

\* execute!(w, first, second) that failed: none, one or both of the two
\* commands reached the terminal before the error.
PartlyTo(on) ==
    \E applied \in 0..2 :
        /\ alternate_screen' = (IF applied >= 1 THEN on ELSE alternate_screen)
        /\ mouse_capture' = (IF applied >= 2 THEN on ELSE mouse_capture)

\* ---------------------------------------------------------------- init

\* The shell's terminal, and the store TuiData::default() will read: any
\* list of at most MaxLen labels with a valid cursor, any index, any content.
Init ==
    /\ pc = "enable_raw_mode"
    /\ raw_mode = FALSE
    /\ alternate_screen = FALSE
    /\ mouse_capture = FALSE
    /\ cursor_shown = TRUE
    /\ items \in SeqsUpTo(Labels, MaxLen)
    /\ cursor \in (IF Len(items) = 0 THEN {NoCursor} ELSE 0..(Len(items) - 1))
    /\ note_content_preview = Empty
    /\ message = Empty
    /\ index \in [Labels -> Ids \cup {NoId}]
    /\ content \in [Ids -> ReadResults]
    /\ steps = <<>>

\* init, line 28: enable_raw_mode().unwrap()
InitEnableRawMode ==
    /\ pc = "enable_raw_mode"
    /\ \/ /\ raw_mode' = TRUE
          /\ pc' = "enter_alternate_screen"
          /\ steps' = Append(steps, Done("enable_raw_mode"))
          /\ UNCHANGED cursor_shown
       \/ /\ raw_mode' = raw_mode
          /\ Panic
          /\ steps' = Append(steps, Failed("enable_raw_mode"))
    /\ UNCHANGED <<alternate_screen, mouse_capture, tui_data, store>>

\* init, line 30: execute!(stdout, EnterAlternateScreen, EnableMouseCapture).unwrap()
InitEnterAlternateScreen ==
    /\ pc = "enter_alternate_screen"
    /\ \/ /\ alternate_screen' = TRUE
          /\ mouse_capture' = TRUE
          /\ pc' = "new_terminal"
          /\ steps' = Append(steps, Done("acquire_screen"))
          /\ UNCHANGED cursor_shown
       \/ /\ PartlyTo(TRUE)
          /\ Panic
          /\ steps' = Append(steps, Failed("acquire_screen"))
    /\ UNCHANGED <<raw_mode, tui_data, store>>

\* init, lines 31-34: Terminal::new(backend).unwrap(); TuiData::default()
InitNewTerminal ==
    /\ pc = "new_terminal"
    /\ \/ /\ pc' = "show_preview"
          /\ steps' = Append(steps, Done("new_terminal"))
          /\ UNCHANGED cursor_shown
       \/ /\ Panic
          /\ steps' = Append(steps, Failed("new_terminal"))
    /\ UNCHANGED <<raw_mode, alternate_screen, mouse_capture, tui_data, store>>

\* ------------------------------------------------------------- run_app

\* run_app, line 51: the startup preview refresh.
RunAppStartupPreview ==
    /\ pc = "show_preview"
    /\ LET r == show_note_content_preview(cursor)
       IN  /\ note_content_preview' = r.preview
           /\ message' = r.message
           /\ steps' = steps \o r.log
    /\ pc' = "draw"
    /\ UNCHANGED <<terminal, items, cursor, store>>

\* run_app, line 53: terminal.draw(...).unwrap().  A drawn frame sets no
\* cursor position, so the terminal hides the cursor.
Draw ==
    /\ pc = "draw"
    /\ \/ /\ cursor_shown' = FALSE
          /\ pc' = "read_event"
          /\ steps' = Append(steps, Done("draw"))
       \/ /\ cursor_shown' \in BOOLEAN
          /\ pc' = "panicked"
          /\ steps' = Append(steps, Failed("draw"))
    /\ UNCHANGED <<raw_mode, alternate_screen, mouse_capture, tui_data, store>>

\* The entry event::read() leaves in the log.
Read(ev) == Step("read_event", ev, IF ev = "ReadErr" THEN "err" ELSE "ok")

\* run_app, line 58: KeyCode::Char('q') => return Ok(())
KeyQuit(ev) ==
    /\ ev \in QuitKeys
    /\ pc' = "disable_raw_mode"
    /\ steps' = <<Read(ev)>>
    /\ UNCHANGED <<terminal, tui_data, store>>

\* A down key that moves the cursor without wrapping.
increment_selected_value_unwrapped(ev) ==
    LET c == IF Len(items) = 0 THEN cursor ELSE cursor + 1
        r == [preview |-> note_content_preview, message |-> message,
              log |-> <<>>]
    IN  /\ cursor' = c
        /\ note_content_preview' = r.preview
        /\ message' = r.message
        /\ steps' = <<Read(ev), Done("next")>> \o r.log
        /\ pc' = "draw"
        /\ UNCHANGED <<terminal, items, store>>


\* A down key that refreshes the preview before it moves the cursor.
increment_selected_value_stale(ev) ==
    LET c == next(items, cursor)
        r == show_note_content_preview(cursor)
    IN  /\ cursor' = c
        /\ note_content_preview' = r.preview
        /\ message' = r.message
        /\ steps' = <<Read(ev), Done("next")>> \o r.log
        /\ pc' = "draw"
        /\ UNCHANGED <<terminal, items, store>>

\* increment_selected_value, lines 142-145: next(), then the refresh.
increment_selected_value(ev) ==
    LET c == next(items, cursor)
        r == show_note_content_preview(c)
    IN  /\ cursor' = c
        /\ note_content_preview' = r.preview
        /\ message' = r.message
        /\ steps' = <<Read(ev), Done("next")>> \o r.log
        /\ pc' = "draw"
        /\ UNCHANGED <<terminal, items, store>>


\* An up key that steps forward, as the down key does.
decrement_selected_value_forward(ev) ==
    LET c == next(items, cursor)
        r == show_note_content_preview(c)
    IN  /\ cursor' = c
        /\ note_content_preview' = r.preview
        /\ message' = r.message
        /\ steps' = <<Read(ev), Done("previous")>> \o r.log
        /\ pc' = "draw"
        /\ UNCHANGED <<terminal, items, store>>

\* decrement_selected_value, lines 147-150: previous(), then the refresh.
decrement_selected_value(ev) ==
    LET c == previous(items, cursor)
        r == show_note_content_preview(c)
    IN  /\ cursor' = c
        /\ note_content_preview' = r.preview
        /\ message' = r.message
        /\ steps' = <<Read(ev), Done("previous")>> \o r.log
        /\ pc' = "draw"
        /\ UNCHANGED <<terminal, items, store>>

\* An open key that reports a lookup miss on the status line.
open_selected_note_reporting(ev) ==
    LET name == selected_item(items, cursor)
        note_id == IF name = None THEN NoId ELSE get_note_id_where(name)
        looked == IF name = None THEN <<>>
                  ELSE <<Step("lookup", name, note_id)>>
    IN  IF note_id = NoId
        THEN /\ pc' = "draw"
             /\ steps' = <<Read(ev)>> \o looked
             /\ message' = "not found"
             /\ UNCHANGED <<terminal, items, cursor, note_content_preview, store>>
        ELSE /\ alternate_screen' = FALSE
             /\ mouse_capture' = FALSE
             /\ pc' = "editor"
             /\ steps' = <<Read(ev)>> \o looked \o <<Done("release_screen")>>
             /\ UNCHANGED <<raw_mode, cursor_shown, tui_data, store>>

\* open_selected_note, lines 167-174: resolve the selected label; on a hit
\* execute!(.., LeaveAlternateScreen, DisableMouseCapture).unwrap() and go on
\* to the editor; on a miss, or with nothing selected, return.
open_selected_note(ev) ==
    LET name == selected_item(items, cursor)
        note_id == IF name = None THEN NoId ELSE get_note_id_where(name)
        looked == IF name = None THEN <<>>
                  ELSE <<Step("lookup", name, note_id)>>
    IN  IF note_id = NoId
        THEN /\ pc' = "draw"
             /\ steps' = <<Read(ev)>> \o looked
             /\ UNCHANGED <<terminal, tui_data, store>>
        ELSE /\ \/ /\ alternate_screen' = FALSE
                   /\ mouse_capture' = FALSE
                   /\ pc' = "editor"
                   /\ steps' = <<Read(ev)>> \o looked
                                  \o <<Done("release_screen")>>
                   /\ UNCHANGED cursor_shown
                \/ /\ PartlyTo(FALSE)
                   /\ Panic
                   /\ steps' = <<Read(ev)>> \o looked
                                  \o <<Failed("release_screen")>>
             /\ UNCHANGED <<raw_mode, tui_data, store>>

\* run_app, lines 59-60: 'j' | Down
KeyDown(ev) == ev \in DownKeys /\ increment_selected_value(ev)

\* run_app, lines 61-62: 'k' | Up
KeyUp(ev) == ev \in UpKeys /\ decrement_selected_value(ev)

\* run_app, lines 63-64: 'l' | Enter
KeyOpen(ev) == ev \in OpenKeys /\ open_selected_note(ev)



\* An ignored event that goes straight back to event::read(), with no frame.
Ignored_undrawn(ev) ==
    /\ ev \in OtherEvents
    /\ pc' = "read_event"
    /\ steps' = <<Read(ev)>>
    /\ UNCHANGED <<terminal, tui_data, store>>

\* A key mapping that ignores case: 'J' moves down as 'j' does.
Ignored_caseless(ev) ==
    /\ ev \in OtherEvents
    /\ IF ev = "J"
       THEN increment_selected_value(ev)
       ELSE /\ pc' = "draw"
            /\ steps' = <<Read(ev)>>
            /\ UNCHANGED <<terminal, tui_data, store>>

\* run_app, lines 56 and 65: any other key, an event that is no key, or a
\* failed read: nothing is done and the loop goes on.
Ignored(ev) ==
    /\ ev \in OtherEvents
    /\ pc' = "draw"
    /\ steps' = <<Read(ev)>>
    /\ UNCHANGED <<terminal, tui_data, store>>

\* run_app, lines 56-67: one event is read and handled.
ReadEvent ==
    /\ pc = "read_event"
    /\ \E ev \in Events :
          \/ KeyQuit(ev)
          \/ KeyDown(ev)
          \/ KeyUp(ev)
          \/ KeyOpen(ev)
          \/ Ignored(ev)

\* The identifier open_selected_note resolved (the label cannot have changed).
opened_note == get_note_id_where(selected_item(items, cursor))


\* An editor call whose result is unwrapped: a failure panics.
NotesOpen_unwrapping ==
    /\ pc = "editor"
    /\ \E res \in OpenResults :
          /\ steps' = Append(steps, Step("editor", opened_note, res))
          /\ IF res = "ok"
             THEN pc' = "clear" /\ UNCHANGED cursor_shown
             ELSE Panic
    /\ content' \in StoresAfterOpen(opened_note)
    /\ UNCHANGED <<raw_mode, alternate_screen, mouse_capture, tui_data, index>>

\* An editor call followed at once by a preview refresh, before the screen
\* is cleared and re-acquired.
NotesOpen_refreshing ==
    /\ pc = "editor"
    /\ \E res \in OpenResults :
          LET r == show_note_content_preview(cursor)
          IN  /\ message' = (IF res = "ok" THEN r.message ELSE res)
              /\ note_content_preview' = r.preview
              /\ steps' = Append(steps, Step("editor", opened_note, res)) \o r.log
    /\ content' \in StoresAfterOpen(opened_note)
    /\ pc' = "clear"
    /\ UNCHANGED <<terminal, items, cursor, index>>

\* An editor call whose failure returns from open_selected_note at once.
NotesOpen_returning ==
    /\ pc = "editor"
    /\ \E res \in OpenResults :
          /\ message' = (IF res = "ok" THEN message ELSE res)
          /\ steps' = Append(steps, Step("editor", opened_note, res))
          /\ pc' = (IF res = "ok" THEN "clear" ELSE "draw")
    /\ content' \in StoresAfterOpen(opened_note)
    /\ UNCHANGED <<terminal, items, cursor, note_content_preview, index>>

\* open_selected_note, lines 176-178: Notes::open blocks until the editor
\* exits; a failure description goes to tui_data.message.
NotesOpen ==
    /\ pc = "editor"
    /\ \E res \in OpenResults :
          /\ message' = (IF res = "ok" THEN message ELSE res)
          /\ steps' = Append(steps, Step("editor", opened_note, res))
    /\ content' \in StoresAfterOpen(opened_note)
    /\ pc' = "clear"
    /\ UNCHANGED <<terminal, items, cursor, note_content_preview, index>>

\* open_selected_note, line 181: terminal.clear().unwrap()
TerminalClear ==
    /\ pc = "clear"
    /\ \/ /\ pc' = "reacquire_screen"
          /\ steps' = Append(steps, Done("clear"))
          /\ UNCHANGED cursor_shown
       \/ /\ Panic
          /\ steps' = Append(steps, Failed("clear"))
    /\ UNCHANGED <<raw_mode, alternate_screen, mouse_capture, tui_data, store>>


\* A re-acquisition followed by a preview refresh of the note just edited.
ReacquireScreen_refreshing ==
    /\ pc = "reacquire_screen"
    /\ \/ LET r == show_note_content_preview(cursor)
          IN  /\ alternate_screen' = TRUE
              /\ mouse_capture' = TRUE
              /\ pc' = "draw"
              /\ steps' = Append(steps, Done("reacquire_screen")) \o r.log
              /\ note_content_preview' = r.preview
              /\ message' = r.message
              /\ UNCHANGED cursor_shown
       \/ /\ PartlyTo(TRUE)
          /\ Panic
          /\ steps' = Append(steps, Failed("reacquire_screen"))
          /\ UNCHANGED <<note_content_preview, message>>
    /\ UNCHANGED <<raw_mode, items, cursor, store>>

\* open_selected_note, lines 183-187:
\* execute!(.., EnterAlternateScreen, EnableMouseCapture).unwrap()
ReacquireScreen ==
    /\ pc = "reacquire_screen"
    /\ \/ /\ alternate_screen' = TRUE
          /\ mouse_capture' = TRUE
          /\ pc' = "draw"
          /\ steps' = Append(steps, Done("reacquire_screen"))
          /\ UNCHANGED cursor_shown
       \/ /\ PartlyTo(TRUE)
          /\ Panic
          /\ steps' = Append(steps, Failed("reacquire_screen"))
    /\ UNCHANGED <<raw_mode, tui_data, store>>

\* --------------------------------------------------- init, the teardown

\* init, line 37: disable_raw_mode().unwrap()
InitDisableRawMode ==
    /\ pc = "disable_raw_mode"
    /\ \/ /\ raw_mode' = FALSE
          /\ pc' = "leave_alternate_screen"
          /\ steps' = Append(steps, Done("disable_raw_mode"))
          /\ UNCHANGED cursor_shown
       \/ /\ raw_mode' = raw_mode
          /\ Panic
          /\ steps' = Append(steps, Failed("disable_raw_mode"))
    /\ UNCHANGED <<alternate_screen, mouse_capture, tui_data, store>>

\* init, lines 38-42:
\* execute!(.., LeaveAlternateScreen, DisableMouseCapture).unwrap()
InitLeaveAlternateScreen ==
    /\ pc = "leave_alternate_screen"
    /\ \/ /\ alternate_screen' = FALSE
          /\ mouse_capture' = FALSE
          /\ pc' = "show_cursor"
          /\ steps' = Append(steps, Done("restore_screen"))
          /\ UNCHANGED cursor_shown
       \/ /\ PartlyTo(FALSE)
          /\ Panic
          /\ steps' = Append(steps, Failed("restore_screen"))
    /\ UNCHANGED <<raw_mode, tui_data, store>>

\* init, lines 43-47: terminal.show_cursor().unwrap(); run_app returned
\* Ok(()), so nothing is printed and init returns.
InitShowCursor ==
    /\ pc = "show_cursor"
    /\ \/ /\ cursor_shown' = TRUE
          /\ pc' = "done"
          /\ steps' = Append(steps, Done("show_cursor"))
       \/ /\ Panic
          /\ steps' = Append(steps, Failed("show_cursor"))
    /\ UNCHANGED <<raw_mode, alternate_screen, mouse_capture, tui_data, store>>

Next ==
    \/ InitEnableRawMode
    \/ InitEnterAlternateScreen
    \/ InitNewTerminal
    \/ RunAppStartupPreview
    \/ Draw
    \/ ReadEvent
    \/ NotesOpen
    \/ TerminalClear
    \/ ReacquireScreen
    \/ InitDisableRawMode
    \/ InitLeaveAlternateScreen
    \/ InitShowCursor

Spec == Init /\ [][Next]_vars


\* Longest note list of the sessions that exercise the navigation.
NavMaxLen == 3

\* The sessions that exercise the navigation: lists of up to NavMaxLen
\* labels over any index, with one readable and one unreadable note.
NavInit ==
    /\ pc = "enable_raw_mode"
    /\ raw_mode = FALSE
    /\ alternate_screen = FALSE
    /\ mouse_capture = FALSE
    /\ cursor_shown = TRUE
    /\ items \in SeqsUpTo(Labels, NavMaxLen)
    /\ cursor \in (IF Len(items) = 0 THEN {NoCursor} ELSE 0..(Len(items) - 1))
    /\ note_content_preview = Empty
    /\ message = Empty
    /\ index \in [Labels -> Ids \cup {NoId}]
    /\ content = [i \in Ids |-> IF i = "n1" THEN Ok("one") ELSE Err("not found")]
    /\ steps = <<>>

NavSpec == NavInit /\ [][Next]_vars

\* ------------------------------------------------- reading the log

Ops == [i \in DOMAIN steps |-> steps[i].op]
LastStep == steps[Len(steps)]
Ran(op) == Cardinality({i \in DOMAIN steps : steps[i].op = op})
IsPrefix(a, b) == Len(a) <= Len(b) /\ SubSeq(b, 1, Len(a)) = a
Min(a, b) == IF a <= b THEN a ELSE b

AcquireOps == {"enable_raw_mode", "acquire_screen", "new_terminal"}
SessionOps == {"draw", "release_screen", "clear", "reacquire_screen"}
RestoreOps == {"disable_raw_mode", "restore_screen", "show_cursor"}
CollaboratorOps == {"lookup", "read_content", "editor"}
RestoreSeq == <<"disable_raw_mode", "restore_screen", "show_cursor">>
OpenSeq == <<"release_screen", "editor", "clear", "reacquire_screen">>

ModesReleased ==
    ~raw_mode /\ ~alternate_screen /\ ~mouse_capture /\ cursor_shown

\* init has stopped: it returned, or it panicked.
Stopped == pc \in {"done", "panicked"}

\* The handler running, or last run, is that of one of these keys.
Handling(keys) ==
    /\ Len(steps) > 0
    /\ steps[1].op = "read_event"
    /\ steps[1].arg \in keys

\* ------------------------------------------------------------ C1

\* C1: on every path by which init stops once the session is up (normal
\* quit, or a panic inside the event loop or the open-note sequence), raw
\* mode is disabled, the alternate screen and mouse capture are left and the
\* cursor is visible.
C1_ReleasedOnEveryExit ==
    (pc = "done" \/ (pc = "panicked" /\ LastStep.op \in SessionOps))
        => ModesReleased

\* ------------------------------------------------------------ C2

\* C2: while the editor call of the open-note operation runs, the TUI holds
\* no terminal mode: neither raw input mode nor the alternate screen nor
\* mouse capture.
C2_NothingHeldDuringEditor ==
    pc = "editor" => ~raw_mode /\ ~alternate_screen /\ ~mouse_capture

\* ------------------------------------------------------------ C3

\* The open key was read and its label resolved to an identifier.
OpenResolved ==
    /\ Handling(OpenKeys)
    /\ Len(steps) >= 2
    /\ steps[2].op = "lookup"
    /\ steps[2].res # NoId

\* The handler of the key last read is over: the loop is back at the frame,
\* or init has stopped.
HandlerOver == pc \in {"draw", "read_event", "panicked"}

\* C3 as stated: for an open key on a label that resolves, release, editor,
\* clear and re-acquire all run, in this order and each exactly once, and a
\* failure description of the editor ends up in status_message.
C3_OpenRunsEveryStepOnce ==
    (OpenResolved /\ HandlerOver) =>
        /\ Len(steps) >= 6
        /\ SubSeq(Ops, 3, 6) = OpenSeq
        /\ \A i \in 1..4 : Ran(OpenSeq[i]) = 1
        /\ steps[4].res # "ok" => message = steps[4].res

\* C3 as amended: for an open key on a label that resolves, the steps
\* release, editor, clear, re-acquire are started in this order, each at most
\* once; each runs exactly once unless release, clear or re-acquire itself
\* fails, and then init panics at that step and the later steps do not run.
\* Once the handler returns all four have run, whatever the editor returned,
\* and a failure description of the editor is in status_message.
C3_OpenStepsInOrder ==
    OpenResolved =>
        /\ Len(steps) >= 3
        /\ IsPrefix(SubSeq(Ops, 3, Min(Len(steps), 6)), OpenSeq)
        /\ Len(steps) > 6 => Len(steps) = 7 /\ steps[7].op = "draw"
        /\ \A i \in 3..Len(steps) :
              steps[i].res = "err" => pc = "panicked" /\ i = Len(steps)
        /\ pc = "panicked" => LastStep.res = "err"
        /\ pc \in {"draw", "read_event"} => Len(steps) >= 6
        /\ pc = "editor" <=> Len(steps) = 3 /\ steps[3].res = "ok"
        /\ Len(steps) >= 4 =>
              /\ steps[4].arg = steps[2].res
              /\ steps[4].res # "ok" => message = steps[4].res

\* The open sequence was run to its end with the editor failing.
C3_Witness ==
    /\ OpenResolved
    /\ pc = "draw"
    /\ Len(steps) = 6
    /\ steps[4].res \in EditorErrors
    /\ message = steps[4].res
    /\ alternate_screen /\ mouse_capture

\* ------------------------------------------------------------ C4

\* C4: a restoration step that fails at shutdown is not re-thrown: it causes
\* no panic and the remaining restoration steps still run, so init ends
\* having attempted all three.
C4_RestorationFailureSwallowed ==
    (/\ Handling(QuitKeys)
     /\ \E i \in DOMAIN steps : steps[i].op \in RestoreOps /\ steps[i].res = "err")
        => /\ pc # "panicked"
           /\ Stopped => SubSeq(Ops, 2, Len(steps)) = RestoreSeq

\* ------------------------------------------------------------ C5

\* C5: when an acquisition step fails at startup, the event loop is never
\* entered and no mode acquired by an earlier step is still held.
C5_NoPartialSession ==
    (pc = "panicked" /\ LastStep.op \in AcquireOps) =>
        /\ Ran("draw") = 0 /\ Ran("read_event") = 0
        /\ ~raw_mode /\ ~alternate_screen /\ ~mouse_capture

\* ------------------------------------------------------------ C6

\* C6: once 'q' is read no frame is drawn and no event is read any more, and
\* the restoration (disable raw mode, leave alternate screen and mouse
\* capture, show cursor) runs exactly once, after which init is finished.
C6_QuitRestoresOnce ==
    Handling(QuitKeys) =>
        /\ Ran("draw") = 0 /\ Ran("read_event") = 1
        /\ IsPrefix(SubSeq(Ops, 2, Len(steps)), RestoreSeq)
        /\ Stopped =>
              /\ pc = "done"
              /\ \A i \in 1..3 : Ran(RestoreSeq[i]) = 1
              /\ ModesReleased

\* ------------------------------------------------------------ C7

\* This step runs a preview refresh: the startup one, or that of a down or
\* up key.
RefreshStep ==
    \/ pc = "show_preview" /\ pc' = "draw"
    \/ pc = "read_event" /\ steps'[1].arg \in DownKeys \cup UpKeys

\* C7: a preview refresh whose selected label resolves and whose content
\* read fails with description e leaves status_message = e, preview_text as
\* it was before the refresh, and the cursor where the refresh found it.
C7_ReadFailureKeepsPreview ==
    [][LET name == selected_item(items, cursor')
           note_id == get_note_id_where(name)
       IN  (/\ RefreshStep
            /\ name # None
            /\ note_id # NoId
            /\ ~get_content_of_note(note_id).ok)
           => /\ message' = get_content_of_note(note_id).val
              /\ note_content_preview' = note_content_preview
              /\ LastStep'.op = "read_content"
              /\ LastStep'.res = message'
              /\ cursor' = (IF pc = "show_preview" THEN cursor
                            ELSE IF steps'[1].arg \in DownKeys
                                 THEN next(items, cursor)
                                 ELSE previous(items, cursor))]_vars

\* A failed content read left its description on the status line and a
\* preview fetched earlier in place.
C7_Witness ==
    /\ pc = "draw"
    /\ Handling(DownKeys \cup UpKeys)
    /\ LastStep.op = "read_content"
    /\ LastStep.res \in ReadErrors
    /\ message = LastStep.res
    /\ note_content_preview \in Texts

\* ------------------------------------------------------------ C8

\* C8: an open key with nothing selected, or on a label with no identifier
\* in the index, changes nothing: cursor, preview_text, status_message and
\* the terminal modes stay, and neither the editor nor the release or
\* re-acquisition of the screen is called.
C8_OpenMissChangesNothing ==
    [][(/\ pc = "read_event"
        /\ steps'[1].arg \in OpenKeys
        /\ \/ selected_item(items, cursor) = None
           \/ get_note_id_where(selected_item(items, cursor)) = NoId)
       => /\ UNCHANGED <<tui_data, terminal, store>>
          /\ pc' = "draw"
          /\ \A i \in DOMAIN steps' :
                steps'[i].op \in {"read_event", "lookup"}]_vars

\* An open key was handled on a label the index does not know, with a
\* preview on screen.
C8_Witness ==
    /\ pc = "draw"
    /\ Handling(OpenKeys)
    /\ Len(steps) = 2
    /\ steps[2] = Step("lookup", selected_item(items, cursor), NoId)
    /\ note_content_preview \in Texts
    /\ alternate_screen /\ mouse_capture

\* ------------------------------------------------------------ C9

\* Nothing has touched the session of an empty list.
EmptyUntouched ==
    /\ cursor = NoCursor
    /\ selected_item(items, cursor) = None
    /\ note_content_preview = Empty
    /\ message = Empty
    /\ \A i \in DOMAIN steps :
          steps[i].op \notin CollaboratorOps \cup {"release_screen", "clear",
                                                   "reacquire_screen"}
    /\ pc \notin {"editor", "clear", "reacquire_screen"}
    /\ pc = "panicked" =>
          LastStep.op \in AcquireOps \cup RestoreOps \cup {"draw"}

\* C9: with an empty note list the startup refresh and any sequence of down,
\* up and open keys leave the list empty and nothing selected, never fail,
\* attempt no lookup, content read or editor call, and leave preview_text and
\* status_message untouched.
C9_EmptyListIsInert ==
    /\ [](Len(items) = 0 => EmptyUntouched)
    /\ [][Len(items) = 0 => Len(items') = 0]_vars

\* An open key was handled on the empty list.
C9_Witness ==
    /\ Len(items) = 0
    /\ pc = "draw"
    /\ Handling(OpenKeys)
    /\ Len(steps) = 1

\* ------------------------------------------------------------ C10

\* C10: with a non-empty list 0 <= cursor < len(items) in every state; the
\* items never change; the cursor changes only by next() or previous() in the
\* handler of a down or up key.
C10_CursorInRangeItemsFixed ==
    /\ [](Len(items) > 0 => 0 <= cursor /\ cursor < Len(items))
    /\ [][/\ items' = items
          /\ cursor' # cursor =>
                /\ pc = "read_event"
                /\ \/ /\ steps'[1].arg \in DownKeys
                      /\ steps'[2].op = "next"
                      /\ cursor' = next(items, cursor)
                   \/ /\ steps'[1].arg \in UpKeys
                      /\ steps'[2].op = "previous"
                      /\ cursor' = previous(items, cursor)]_vars

\* A down key wrapped the cursor of a full list from the last label to the
\* first.
C10_Witness ==
    /\ Len(items) = MaxLen
    /\ pc = "draw"
    /\ Handling(DownKeys)
    /\ cursor = 0

\* ------------------------------------------------------------ C11

RECURSIVE NextTimes(_, _, _)
\* next() applied n times.
NextTimes(list, c, n) ==
    IF n = 0 THEN c ELSE NextTimes(list, next(list, c), n - 1)

RECURSIVE PreviousTimes(_, _, _)
\* previous() applied n times.
PreviousTimes(list, c, n) ==
    IF n = 0 THEN c ELSE PreviousTimes(list, previous(list, c), n - 1)

\* C11: on a non-empty list of length N a down key moves the cursor from c
\* to c+1, or to 0 from N-1, and an up key from c to c-1, or to N-1 from 0;
\* N times next(), or N times previous(), lead back to the cursor, and
\* next() then previous(), or the reverse, leave it where it was.
C11_NavigationIsCyclic ==
    /\ [][(pc = "read_event" /\ Len(items) > 0) =>
            /\ steps'[1].arg \in DownKeys =>
                  cursor' = (IF cursor = Len(items) - 1 THEN 0 ELSE cursor + 1)
            /\ steps'[1].arg \in UpKeys =>
                  cursor' = (IF cursor = 0 THEN Len(items) - 1 ELSE cursor - 1)]_vars
    /\ [](Len(items) > 0 =>
            /\ NextTimes(items, cursor, Len(items)) = cursor
            /\ PreviousTimes(items, cursor, Len(items)) = cursor
            /\ previous(items, next(items, cursor)) = cursor
            /\ next(items, previous(items, cursor)) = cursor)

\* An up key wrapped the cursor of a full list from the first label to the
\* last.
C11_Witness ==
    /\ Len(items) = NavMaxLen
    /\ pc = "draw"
    /\ Handling(UpKeys)
    /\ cursor = Len(items) - 1

\* ------------------------------------------------------------ C12

\* C12: a preview refresh invoked again right after a refresh, with the
\* cursor, the index and the note contents as the first one left them, yields
\* the preview_text the first one left.
C12_RefreshIsIdempotent ==
    [][RefreshStep =>
          (show_note_content_preview(cursor).preview)' = note_content_preview']_vars

\* A refresh replaced the preview on screen by another text.
C12_Witness ==
    /\ pc = "draw"
    /\ Handling(DownKeys \cup UpKeys)
    /\ LastStep.op = "read_content"
    /\ LastStep.res = "ok"
    /\ note_content_preview = get_content_of_note(LastStep.arg).val

\* ------------------------------------------------------------ C13

\* C13: an event that is none of the keys q, j, Down, k, Up, l, Enter (the
\* capitals 'Q' and 'J' among them) changes nothing: cursor, preview_text,
\* status_message and the terminal modes stay, no collaborator is called and
\* the loop goes on to the next frame.
C13_OtherKeyChangesNothing ==
    [][(pc = "read_event" /\ steps'[1].arg \in OtherEvents) =>
          /\ UNCHANGED <<tui_data, terminal, store>>
          /\ steps' = <<Read(steps'[1].arg)>>
          /\ pc' = "draw"]_vars

\* A capital letter was read with a preview and a message on screen.
C13_Witness ==
    /\ pc = "draw"
    /\ Handling({"Q", "J"})
    /\ Len(steps) = 1
    /\ note_content_preview \in Texts
    /\ message # Empty

\* ------------------------------------------------------------ C14

TerminalOps == AcquireOps \cup SessionOps \cup RestoreOps

\* Entry i of the log is a collaborator call that failed: a lookup miss, a
\* failed content read or a failed editor call.
CollaboratorFailed(i) ==
    \/ steps[i].op = "lookup" /\ steps[i].res = NoId
    \/ steps[i].op \in {"read_content", "editor"} /\ steps[i].res # "ok"

\* No call on the terminal has failed since the last event was read.
TerminalSound ==
    \A j \in DOMAIN steps : steps[j].op \in TerminalOps => steps[j].res = "ok"

\* C14: no collaborator failure ends the session: init panics only on a
\* failed terminal call and returns only after 'q'; after a lookup miss, a
\* failed content read or a failed editor call the loop is still running
\* (unless a terminal call failed), and the description of a failed content
\* read or editor call is in status_message.
C14_CollaboratorFailureKeepsSession ==
    /\ pc = "panicked" => LastStep.op \in TerminalOps /\ LastStep.res = "err"
    /\ pc = "done" => Handling(QuitKeys)
    /\ \A i \in DOMAIN steps :
          CollaboratorFailed(i) =>
              /\ TerminalSound =>
                    pc \in {"draw", "read_event", "clear", "reacquire_screen"}
              /\ steps[i].op # "lookup" => message = steps[i].res

\* The loop waits for the next event after an editor call that failed.
C14_Witness ==
    /\ pc = "read_event"
    /\ OpenResolved
    /\ steps[4].res \in EditorErrors
    /\ message = steps[4].res

\* ------------------------------------------------------------ C15

\* The screen is released for the editor and not yet re-acquired.
EditorOwnsTerminal == pc \in {"editor", "clear", "reacquire_screen"}

\* C15: from the release of the alternate screen for an open command to its
\* re-acquisition the TUI draws no frame, reads no event and fetches no
\* content: the only calls are the editor, the clear and the re-acquisition,
\* one at a time, and while the editor runs nothing else does.
C15_NothingElseWhileEditorOwns ==
    /\ [](EditorOwnsTerminal =>
            /\ OpenResolved
            /\ ~alternate_screen /\ ~mouse_capture
            /\ IsPrefix(SubSeq(Ops, 3, Len(steps)), OpenSeq))
    /\ [][EditorOwnsTerminal =>
            /\ Len(steps') = Len(steps) + 1
            /\ SubSeq(steps', 1, Len(steps)) = steps
            /\ steps'[Len(steps')].op = pc
            /\ UNCHANGED <<items, cursor, note_content_preview>>]_vars

\* The editor has returned, the screen is cleared and not yet re-acquired.
C15_Witness ==
    /\ pc = "reacquire_screen"
    /\ Len(steps) = 5
    /\ ~alternate_screen

\* ------------------------------------------------------------ C16

StartupSeq == <<"enable_raw_mode", "acquire_screen", "new_terminal">>

\* C16: the startup refresh comes before the first frame; whenever an event
\* is about to be read exactly one frame has been drawn since the last event
\* (since startup for the first), it is the last thing done, and nothing
\* changes the session state between the frame and the read; this holds after
\* every event other than the quit key: mapped, ignored, no key, failed read.
C16_OneFramePerIteration ==
    /\ [](pc = "read_event" =>
            /\ LastStep = Done("draw")
            /\ Ran("draw") = 1
            /\ \/ /\ steps[1].op = "read_event"
                  /\ steps[1].arg \notin QuitKeys
                  /\ Ran("read_event") = 1
               \/ /\ Ran("read_event") = 0
                  /\ SubSeq(Ops, 1, 3) = StartupSeq
                  /\ Len(items) > 0 => Ran("lookup") = 1)
    /\ [](pc = "draw" => Ran("draw") = 0)
    /\ [][pc = "read_event" =>
            (pc' = "read_event" => UNCHANGED vars)]_vars
    /\ [][pc = "draw" => UNCHANGED <<tui_data, store>>]_vars

\* A frame was drawn after a failed read, and the next read is due.
C16_Witness ==
    /\ pc = "read_event"
    /\ Handling({"ReadErr"})
    /\ steps = <<Read("ReadErr"), Done("draw")>>

\* ------------------------------------------------------------ C17

\* Where a down or up key read in this step moves the cursor of a non-empty
\* list.
MovedCursor ==
    IF steps'[1].arg \in DownKeys
    THEN (IF cursor = Len(items) - 1 THEN 0 ELSE cursor + 1)
    ELSE (IF cursor = 0 THEN Len(items) - 1 ELSE cursor - 1)

\* C17: a down or up key moves the cursor first and then refreshes at the
\* new cursor: when the label there resolves and its read succeeds,
\* preview_text becomes the content of the newly selected note, after exactly
\* one lookup and one content read.
C17_PreviewFollowsNewSelection ==
    [][(/\ pc = "read_event"
        /\ steps'[1].arg \in DownKeys \cup UpKeys
        /\ Len(items) > 0)
       => LET name == items[MovedCursor + 1]
              note_id == index[name]
          IN  /\ cursor' = MovedCursor
              /\ steps'[2].op = (IF steps'[1].arg \in DownKeys
                                 THEN "next" ELSE "previous")
              /\ (note_id # NoId /\ content[note_id].ok) =>
                    /\ note_content_preview' = content[note_id].val
                    /\ steps' = <<steps'[1], steps'[2],
                                  Step("lookup", name, note_id),
                                  Step("read_content", note_id, "ok")>>]_vars

\* A down key moved from one readable note to another with a different text,
\* and the preview shows the text of the new one.
C17_Witness ==
    /\ pc = "draw"
    /\ Handling(DownKeys)
    /\ Len(items) >= 2
    /\ LET new == index[items[cursor + 1]]
           old == index[items[previous(items, cursor) + 1]]
       IN  /\ new # NoId /\ old # NoId
           /\ content[new].ok /\ content[old].ok
           /\ content[new].val # content[old].val
           /\ note_content_preview = content[new].val

\* ------------------------------------------------------------ C18

\* C18: a refresh (of a down or up key, or the startup one) that finds no
\* identifier for the selected label surfaces nothing: the cursor is where
\* the key moved it, preview_text and status_message keep their values and
\* no content read is attempted.
C18_LookupMissIsSilent ==
    [][LET name == selected_item(items, cursor')
       IN  (/\ RefreshStep
            /\ name # None
            /\ get_note_id_where(name) = NoId)
           => /\ note_content_preview' = note_content_preview
              /\ message' = message
              /\ LastStep' = Step("lookup", name, NoId)
              /\ \A i \in DOMAIN steps' : steps'[i].op # "read_content"
              /\ cursor' = (IF pc = "show_preview" THEN cursor
                            ELSE MovedCursor)]_vars

\* A key moved the cursor to a label the index does not know while the
\* preview of another note stays on screen.
C18_Witness ==
    /\ pc = "draw"
    /\ Handling(DownKeys \cup UpKeys)
    /\ LastStep.op = "lookup"
    /\ LastStep.res = NoId
    /\ items[cursor + 1] # items[previous(items, cursor) + 1]
    /\ note_content_preview \in Texts

\* ------------------------------------------------------------ C19

\* The first entry of the log that the present step adds.
NewFrom == IF pc = "read_event" THEN 1 ELSE Len(steps) + 1

\* Entry i of the next log is a content read or an editor call that failed.
FailureAt(i) ==
    /\ steps'[i].op \in {"read_content", "editor"}
    /\ steps'[i].res # "ok"

\* C19: status_message is written only by a failed content read or a failed
\* editor call, with the description of that failure, and by nothing else:
\* it is never cleared, and in every state it is its initial value or the
\* description of the most recent such failure.
C19_MessageOnlyFromFailures ==
    /\ [](message \in {Empty} \cup ReadErrors \cup EditorErrors)
    /\ [][/\ message' # message =>
                \E i \in NewFrom..Len(steps') :
                    FailureAt(i) /\ message' = steps'[i].res
          /\ \A i \in NewFrom..Len(steps') :
                FailureAt(i) => message' = steps'[i].res]_vars

\* A message of an earlier failure is still there after a refresh that
\* succeeded.
C19_Witness ==
    /\ pc = "draw"
    /\ Handling(DownKeys \cup UpKeys)
    /\ LastStep.op = "read_content"
    /\ LastStep.res = "ok"
    /\ message # Empty

\* ------------------------------------------------------------ C20

\* C20: the handling of an open key, from the read of the key to the
\* re-acquisition of the screen, never changes the cursor or preview_text and
\* reads no content, whether the editor succeeds or fails; only
\* status_message may change, and only to the editor's failure description.
C20_OpenKeepsCursorAndPreview ==
    [][((pc = "read_event" /\ steps'[1].arg \in OpenKeys) \/ EditorOwnsTerminal)
       => /\ UNCHANGED <<items, cursor, note_content_preview>>
          /\ \A i \in DOMAIN steps' : steps'[i].op # "read_content"
          /\ message' # message =>
                pc = "editor" /\ message' \in EditorErrors]_vars

\* The open sequence is over and the note just edited reads as a text that
\* is not the one on screen.
C20_Witness ==
    /\ pc = "draw"
    /\ OpenResolved
    /\ Len(steps) = 6
    /\ steps[4].res = "ok"
    /\ get_content_of_note(steps[4].arg).ok
    /\ note_content_preview \in Texts
    /\ get_content_of_note(steps[4].arg).val # note_content_preview
====
